---------------------------- MODULE Spec2Model ----------------------------
(***************************************************************************)
(* Model of hm_8.py: a command-line address book.  Texts (str values) are  *)
(* sequences of Unicode code points, dates are records [year, month, day], *)
(* a Record is [name, phones, birthday] and AddressBook.data (a dict in    *)
(* insertion order) is a sequence of Records with pairwise distinct names. *)
(* An operation that can raise returns a record whose exc field is ""      *)
(* when it returns normally and the exception's class name otherwise.      *)
(***************************************************************************)
EXTENDS Integers, Sequences, FiniteSets, TLC

VARIABLES
  file,      \* the file addressbook.pkl
  book,      \* main's book: AddressBook.data
  pc,        \* where main is: "start", "loop", "finally", "exit", "crashed"
  exc,       \* the exception leaving main, "" when there is none
  command,   \* main's command, <<>> before the first line is read
  args,      \* main's args
  response,  \* the last line printed
  error,     \* the exception the last handler raised into input_error
  upcoming,  \* the list the last call of get_upcoming_birthdays returned
  today,     \* what date.today() gave when it was last read: by the last
             \* call of get_upcoming_birthdays, the session's first day before
  saves,     \* the number of calls of save_data
  saved      \* the book passed to the last call of save_data

vars == <<file, book, pc, exc, command, args, response, error, upcoming, today,
          saves, saved>>

-----------------------------------------------------------------------------
(* Bounds of the model.                                                    *)

\* add is not offered for a record that already holds MaxPhones phones
MaxPhones == 3
\* the clock readings of SpecBirthdays run over TodaySpan + 1 consecutive days
\* from each anchor date
TodaySpan == 10

-----------------------------------------------------------------------------
(* Texts.                                                                  *)

RECURSIVE Join(_, _)
\* sep.join(parts)
Join(parts, sep) ==
  IF Len(parts) = 0 THEN <<>>
  ELSE IF Len(parts) = 1 THEN parts[1]
  ELSE parts[1] \o sep \o Join(Tail(parts), sep)

\* the characters str.split() and str.strip() treat as whitespace: those
\* for which str.isspace() is true
IsSpace(c) ==
  \/ c \in 9..13
  \/ c \in 28..32
  \/ c \in {133, 160, 5760, 8232, 8233, 8239, 8287, 12288}
  \/ c \in 8192..8202

RECURSIVE split(_)
\* str.split(): the maximal runs of non-whitespace characters, in order
split(text) ==
  IF Len(text) = 0 THEN <<>>
  ELSE IF IsSpace(text[1]) THEN split(Tail(text))
  ELSE LET stops == {i \in 1..Len(text) : IsSpace(text[i])}
           end == IF stops = {} THEN Len(text) + 1
                  ELSE CHOOSE i \in stops : \A j \in stops : i <= j
       IN <<SubSeq(text, 1, end - 1)>> \o split(SubSeq(text, end, Len(text)))

RECURSIVE lstrip(_)
lstrip(text) ==
  IF Len(text) > 0 /\ IsSpace(text[1]) THEN lstrip(Tail(text)) ELSE text

RECURSIVE rstrip(_)
rstrip(text) ==
  IF Len(text) > 0 /\ IsSpace(text[Len(text)])
  THEN rstrip(SubSeq(text, 1, Len(text) - 1)) ELSE text

\* str.strip()
strip(text) == rstrip(lstrip(text))

\* str.lower() on the letters of the model's alphabet
lower(text) ==
  [i \in 1..Len(text) |-> IF text[i] \in 65..90 THEN text[i] + 32 ELSE text[i]]

\* the characters c for which c.isdigit() is true, within the model's
\* alphabet: ASCII digits, ARABIC-INDIC digits, superscript one, two, three
IsDigitChar(c) == c \in 48..57 \/ c \in 1632..1641 \/ c \in {178, 179, 185}

\* the characters a regular expression's \d matches (category Nd) and int()
\* converts, within the model's alphabet
IsDecimalChar(c) == c \in 48..57 \/ c \in 1632..1641

\* str.isdigit(): non-empty and every character a digit character
isdigit(text) == Len(text) > 0 /\ \A i \in 1..Len(text) : IsDigitChar(text[i])

DigitValue(c) == IF c \in 48..57 THEN c - 48 ELSE c - 1632

RECURSIVE int(_)
\* int(text) for a text of decimal characters, a leading space allowed
int(text) ==
  IF Len(text) = 0 THEN 0
  ELSE IF text[1] = 32 THEN int(Tail(text))
  ELSE 10 * int(SubSeq(text, 1, Len(text) - 1)) + DigitValue(text[Len(text)])

RECURSIVE IntText(_)
\* the decimal digits of n >= 0, no padding
IntText(n) == IF n < 10 THEN <<48 + n>> ELSE IntText(n \div 10) \o <<48 + (n % 10)>>

\* a two-digit zero-padded field (%d, %m)
Pad2(n) == IF n < 10 THEN <<48>> \o IntText(n) ELSE IntText(n)

\* %Y of the platform's strftime: glibc does not pad a year below 1000
PadYear(n) == IntText(n)

-----------------------------------------------------------------------------
(* Calendar (datetime.date).                                               *)

date(y, m, d) == [year |-> y, month |-> m, day |-> d]

IsLeap(y) == y % 4 = 0 /\ (y % 100 # 0 \/ y % 400 = 0)

DaysInMonth(y, m) ==
  IF m = 2 THEN (IF IsLeap(y) THEN 29 ELSE 28)
  ELSE IF m \in {4, 6, 9, 11} THEN 30 ELSE 31

\* the (year, month, day) triples the date constructor accepts
IsDate(y, m, d) ==
  /\ y \in 1..9999
  /\ m \in 1..12
  /\ d >= 1
  /\ d <= DaysInMonth(y, m)

DaysBeforeYear(y) ==
  (y - 1) * 365 + ((y - 1) \div 4) - ((y - 1) \div 100) + ((y - 1) \div 400)

RECURSIVE DaysBeforeMonth(_, _)
DaysBeforeMonth(y, m) ==
  IF m = 1 THEN 0 ELSE DaysBeforeMonth(y, m - 1) + DaysInMonth(y, m - 1)

\* date.toordinal()
toordinal(d) == DaysBeforeYear(d.year) + DaysBeforeMonth(d.year, d.month) + d.day

\* date.weekday(): Monday is 0, Saturday 5, Sunday 6
weekday(d) == (toordinal(d) + 6) % 7

\* d1 < d2 on dates
DateLess(d1, d2) == toordinal(d1) < toordinal(d2)

\* (d1 - d2).days
days_between(d1, d2) == toordinal(d1) - toordinal(d2)

NextDay(d) ==
  IF d.day < DaysInMonth(d.year, d.month) THEN date(d.year, d.month, d.day + 1)
  ELSE IF d.month < 12 THEN date(d.year, d.month + 1, 1)
  ELSE date(d.year + 1, 1, 1)

RECURSIVE timedelta_add(_, _)
\* d + timedelta(days=n), n >= 0
timedelta_add(d, n) == IF n = 0 THEN d ELSE timedelta_add(NextDay(d), n - 1)

\* date.strftime("%Y.%m.%d")
strftime_Ymd(d) == PadYear(d.year) \o <<46>> \o Pad2(d.month) \o <<46>> \o Pad2(d.day)

\* datetime.strftime("%d.%m.%Y")
strftime_dmY(d) == Pad2(d.day) \o <<46>> \o Pad2(d.month) \o <<46>> \o PadYear(d.year)

-----------------------------------------------------------------------------
(* Fields.                                                                 *)

\* Phone.__init__'s test: value.isdigit() and len(value) == 10
PhoneAccepts(value) == isdigit(value) /\ Len(value) = 10

\* Phone(value): the field, or ValueError
Phone(value) ==
  IF PhoneAccepts(value) THEN [exc |-> "", value |-> value]
  ELSE [exc |-> "ValueError", value |-> <<>>]

\* the day field of the format: the regular expression
\* 3[0-1]|[1-2]\d|0[1-9]|[1-9]| [1-9] that _strptime compiles for %d
MatchesDay(t) ==
  \/ /\ Len(t) = 2
     /\ \/ t[1] = 51 /\ t[2] \in 48..49
        \/ t[1] \in 49..50 /\ IsDecimalChar(t[2])
        \/ t[1] = 48 /\ t[2] \in 49..57
        \/ t[1] = 32 /\ t[2] \in 49..57
  \/ Len(t) = 1 /\ t[1] \in 49..57

\* the month field: 1[0-2]|0[1-9]|[1-9] for %m
MatchesMonth(t) ==
  \/ /\ Len(t) = 2
     /\ \/ t[1] = 49 /\ t[2] \in 48..50
        \/ t[1] = 48 /\ t[2] \in 49..57
  \/ Len(t) = 1 /\ t[1] \in 49..57

\* the year field: \d\d\d\d for %Y
MatchesYear(t) == Len(t) = 4 /\ \A i \in 1..4 : IsDecimalChar(t[i])

\* datetime.strptime(value, "%d.%m.%Y"): the whole text must be day "."
\* month "." year, none of the fields can hold a ".", and the fields must
\* name a date; the parsed date, or ValueError
strptime(value) ==
  LET dots == {i \in 1..Len(value) : value[i] = 46}
      d1 == CHOOSE i \in dots : \A j \in dots : i <= j
      d2 == CHOOSE i \in dots : \A j \in dots : j <= i
      dd == SubSeq(value, 1, d1 - 1)
      mm == SubSeq(value, d1 + 1, d2 - 1)
      yy == SubSeq(value, d2 + 1, Len(value))
      bad == [exc |-> "ValueError", value |-> date(0, 0, 0)]
  IN IF Cardinality(dots) # 2 THEN bad
     ELSE IF ~(MatchesDay(dd) /\ MatchesMonth(mm) /\ MatchesYear(yy)) THEN bad
     ELSE IF ~IsDate(int(yy), int(mm), int(dd)) THEN bad
     ELSE [exc |-> "", value |-> date(int(yy), int(mm), int(dd))]

\* Birthday(value): the field holding the parsed date, or ValueError
Birthday(value) == strptime(value)

\* Record.birthday is None
None == date(0, 0, 0)

-----------------------------------------------------------------------------
(* Record.                                                                 *)

\* Record(name)
Record(name) == [name |-> name, phones |-> <<>>, birthday |-> None]

\* Record.add_phone(phone_number): the record afterwards and the exception
add_phone(rec, phone_number) ==
  LET p == Phone(phone_number)
  IN IF p.exc # "" THEN [exc |-> p.exc, rec |-> rec]
     ELSE [exc |-> "", rec |-> [rec EXCEPT !.phones = Append(@, p.value)]]

\* Record.remove_phone(phone_number)
remove_phone(rec, phone_number) ==
  [rec EXCEPT !.phones = SelectSeq(@, LAMBDA p : p # phone_number)]

\* the position the loop of edit_phone and find_phone stops at: the first
\* phone equal to the number, 0 when the loop runs to its end
FirstMatch(phones, number) ==
  LET hits == {i \in 1..Len(phones) : phones[i] = number}
  IN IF hits = {} THEN 0 ELSE CHOOSE i \in hits : \A j \in hits : i <= j

\* edit_phone replacing every phone equal to the old number
edit_phone_Mutant(rec, old_number, new_number) ==
  LET i == FirstMatch(rec.phones, old_number)
      p == Phone(new_number)
  IN IF i = 0
     THEN [exc |-> "ValueError", msg |-> "Old number not found.", rec |-> rec]
     ELSE IF p.exc # ""
     THEN [exc |-> p.exc, msg |-> "Phone number must contain exactly 10 digits.",
           rec |-> rec]
     ELSE [exc |-> "", msg |-> "",
           rec |-> [rec EXCEPT !.phones =
                      [k \in 1..Len(rec.phones) |->
                         IF rec.phones[k] = old_number THEN p.value ELSE rec.phones[k]]]]

\* Record.edit_phone(old_number, new_number): the record afterwards, the
\* exception and its message
edit_phone(rec, old_number, new_number) ==
  LET i == FirstMatch(rec.phones, old_number)
      p == Phone(new_number)
  IN IF i = 0
     THEN [exc |-> "ValueError", msg |-> "Old number not found.", rec |-> rec]
     ELSE IF p.exc # ""
     THEN [exc |-> p.exc, msg |-> "Phone number must contain exactly 10 digits.",
           rec |-> rec]
     ELSE [exc |-> "", msg |-> "", rec |-> [rec EXCEPT !.phones[i] = p.value]]

\* Record.find_phone(phone_number): the phone's value, <<>> for None
find_phone(rec, phone_number) ==
  IF FirstMatch(rec.phones, phone_number) = 0 THEN <<>> ELSE phone_number

\* Record.add_birthday(birthday_str)
Record_add_birthday(rec, birthday_str) ==
  LET b == Birthday(birthday_str)
  IN IF b.exc # "" THEN [exc |-> b.exc, rec |-> rec]
     ELSE [exc |-> "", rec |-> [rec EXCEPT !.birthday = b.value]]

\* Record.__str__
Record_str(rec) ==
  <<67, 111, 110, 116, 97, 99, 116, 32, 110, 97, 109, 101, 58, 32>> \o rec.name
  \o <<44, 32, 112, 104, 111, 110, 101, 115, 58, 32>>
  \o (IF Len(rec.phones) > 0 THEN Join(rec.phones, <<59, 32>>) ELSE <<8212>>)
  \o (IF rec.birthday # None
      THEN <<44, 32, 98, 105, 114, 116, 104, 100, 97, 121, 58, 32>>
           \o strftime_dmY(rec.birthday)
      ELSE <<>>)

-----------------------------------------------------------------------------
(* AddressBook.                                                            *)

\* the position of the key in the dict, 0 when it is absent
IndexOf(data, name) ==
  IF \E i \in 1..Len(data) : data[i].name = name
  THEN CHOOSE i \in 1..Len(data) : data[i].name = name
  ELSE 0

\* AddressBook.add_record(record): data[record.name.value] = record
add_record(data, record) ==
  IF IndexOf(data, record.name) = 0 THEN Append(data, record)
  ELSE [data EXCEPT ![IndexOf(data, record.name)] = record]

\* AddressBook.find(name): the position of the record, 0 for None
find(data, name) == IndexOf(data, name)

\* AddressBook.delete(name)
delete(data, name) == SelectSeq(data, LAMBDA r : r.name # name)

\* date.replace(year=y): the date, or ValueError when the year has no such
\* day
date_replace(d, y) ==
  IF IsDate(y, d.month, d.day) THEN [exc |-> "", value |-> date(y, d.month, d.day)]
  ELSE [exc |-> "ValueError", value |-> None]

\* the except branch falling back to 1 March
ReplaceYear_Mutant(bday, y) ==
  LET r == date_replace(bday, y)
  IN IF r.exc = "" THEN r ELSE [exc |-> "", value |-> date(y, 3, 1)]

\* try: bday.replace(year=y) / except ValueError: date(y, 2, 28)
ReplaceYear(bday, y) ==
  LET r == date_replace(bday, y)
  IN IF r.exc = "" THEN r
     ELSE IF IsDate(y, 2, 28) THEN [exc |-> "", value |-> date(y, 2, 28)]
     ELSE [exc |-> "ValueError", value |-> None]

\* bday_this_year before the window test (lines 107-118)
Projected(bday, now) ==
  LET bday_this_year == ReplaceYear(bday, now.year)
  IN IF bday_this_year.exc # "" THEN bday_this_year
     ELSE IF DateLess(bday_this_year.value, now) THEN ReplaceYear(bday, now.year + 1)
     ELSE bday_this_year

\* the window test with the last day left out
InWindow_Mutant(bday_this_year, now) ==
  LET days_ahead == days_between(bday_this_year, now)
  IN 0 <= days_ahead /\ days_ahead < 7

\* the window test (lines 120-122)
InWindow(bday_this_year, now) ==
  LET days_ahead == days_between(bday_this_year, now)
  IN 0 <= days_ahead /\ days_ahead <= 7

\* the weekend shift moving a Saturday by one day only
Shifted_Mutant(bday_this_year) ==
  IF weekday(bday_this_year) = 5 THEN timedelta_add(bday_this_year, 1)
  ELSE IF weekday(bday_this_year) = 6 THEN timedelta_add(bday_this_year, 1)
  ELSE bday_this_year

\* the weekend shift (lines 123-126)
Shifted(bday_this_year) ==
  IF weekday(bday_this_year) = 5 THEN timedelta_add(bday_this_year, 2)
  ELSE IF weekday(bday_this_year) = 6 THEN timedelta_add(bday_this_year, 1)
  ELSE bday_this_year

RECURSIVE get_upcoming_birthdays(_, _)
\* AddressBook.get_upcoming_birthdays() with date.today() = now: the list
\* of {name, congratulation_date} in the order of the dict, or the exception
get_upcoming_birthdays(data, now) ==
  IF Len(data) = 0 THEN [exc |-> "", value |-> <<>>]
  ELSE LET record == data[1]
           bday_this_year == Projected(record.birthday, now)
           rest == get_upcoming_birthdays(Tail(data), now)
       IN IF record.birthday = None THEN rest
          ELSE IF bday_this_year.exc # "" THEN [exc |-> bday_this_year.exc, value |-> <<>>]
          ELSE IF rest.exc # "" THEN rest
          ELSE IF InWindow(bday_this_year.value, now)
          THEN [exc |-> "",
                value |-> <<[name |-> record.name,
                             congratulation_date |->
                               strftime_Ymd(Shifted(bday_this_year.value))]>>
                          \o rest.value]
          ELSE rest

-----------------------------------------------------------------------------
(* Persistence.                                                            *)

\* the file addressbook.pkl: absent, or its content
\*   missing     there is no file
\*   empty       a file of no bytes
\*   truncated   a prefix of a pickle
\*   badclass    a pickle that names a class the module does not define
\*   badint      a pickle whose INT opcode holds no number
\*   unreadable  the path cannot be opened for reading (a directory)
\*   valid       the pickle of the AddressBook in the book field
File(kind, data) == [kind |-> kind, book |-> data]

\* what open(filename, "rb") followed by pickle.load can raise on the
\* file, "" standing for the return of the pickled book.  A prefix of a pickle
\* raises EOFError when it ends where an opcode is to be read (the two bytes
\* of the PROTO opcode) and UnpicklingError when it ends within a frame or
\* an operand
pickle_load(f) ==
  CASE f.kind = "missing" -> {"FileNotFoundError"}
    [] f.kind = "empty" -> {"EOFError"}
    [] f.kind = "truncated" -> {"EOFError", "UnpicklingError"}
    [] f.kind = "badclass" -> {"AttributeError"}
    [] f.kind = "badint" -> {"ValueError"}
    [] f.kind = "unreadable" -> {"IsADirectoryError"}
    [] OTHER -> {""}

\* except (FileNotFoundError, EOFError, pickle.PickleError): UnpicklingError
\* is a PickleError
LoadCatches(e) == e \in {"FileNotFoundError", "EOFError", "PickleError", "UnpicklingError"}

\* load_data(): the outcomes it can have on the file, each the book it
\* returns or the exception it lets through
load_data(f) ==
  { IF e = "" THEN [exc |-> "", value |-> f.book]
    ELSE IF LoadCatches(e) THEN [exc |-> "", value |-> <<>>]
    ELSE [exc |-> e, value |-> <<>>] : e \in pickle_load(f) }

\* the texts of the demo contacts
John == <<74, 111, 104, 110>>
Jane == <<74, 97, 110, 101>>

\* seed_sample_contacts(book)
seed_sample_contacts(data) ==
  IF Len(data) > 0 THEN data
  ELSE LET j1 == add_phone(Record(John), <<49, 50, 51, 52, 53, 54, 55, 56, 57, 48>>).rec
           j2 == add_phone(j1, <<53, 53, 53, 53, 53, 53, 53, 53, 53, 53>>).rec
           j3 == Record_add_birthday(j2, <<48, 52, 46, 49, 49, 46, 49, 57, 55, 53>>).rec
           b1 == add_record(data, j3)
           n1 == add_phone(Record(Jane), <<57, 56, 55, 54, 53, 52, 51, 50, 49, 48>>).rec
           n2 == Record_add_birthday(n1, <<48, 52, 46, 49, 49, 46, 49, 57, 55, 53>>).rec
       IN add_record(b1, n2)

-----------------------------------------------------------------------------
(* Command layer.                                                          *)

\* what a command prints: a fixed message (lit) or a text built from data
Lit(m) == [lit |-> m, text |-> <<>>]
Text(t) == [lit |-> "", text |-> t]

\* no exception
NoError == [cls |-> "", msg |-> ""]
Error(cls, msg) == [cls |-> cls, msg |-> msg]

\* parse_input(user_input): cmd, *args = user_input.strip().split()
parse_input(user_input) ==
  LET tokens == split(strip(user_input))
  IN [command |-> lower(Head(tokens)), args |-> Tail(tokens)]

\* a handler that returns: the book afterwards and the value returned
Return(data, ret) == [error |-> NoError, book |-> data, ret |-> ret]
\* a handler that raises: the book as the handler left it
Raise(data, cls, msg) == [error |-> Error(cls, msg), book |-> data, ret |-> Lit("")]

\* name, ..., *_ = args with n names before the star: ValueError when args
\* holds fewer than n values
UnpackFails(a, n) == Len(a) < n

\* the except clauses of input_error.inner
input_error(r) ==
  IF r.error.cls = "" THEN r.ret
  ELSE IF r.error.cls = "ValueError" THEN Lit("Give me correct data, please.")
  ELSE IF r.error.cls = "KeyError" THEN Lit("Contact not found.")
  ELSE IF r.error.cls = "IndexError" THEN Lit("Not enough arguments.")
  ELSE Lit("")

\* add_contact checking the phone before it creates the record
add_contact_Mutant(a, data) ==
  IF UnpackFails(a, 2) THEN Raise(data, "ValueError", "not enough values to unpack")
  ELSE LET name == a[1]
           phone == a[2]
           found == find(data, name)
           data1 == IF found = 0 THEN add_record(data, Record(name)) ELSE data
           msg == IF found = 0 THEN "Contact added." ELSE "Contact updated."
           i == find(data1, name)
           r == add_phone(data1[i], phone)
       IN IF Len(phone) = 0 THEN Return(data1, Lit(msg))
          ELSE IF r.exc # ""
          THEN Raise(data, r.exc, "Phone number must contain exactly 10 digits.")
          ELSE Return([data1 EXCEPT ![i] = r.rec], Lit(msg))

\* add_contact(args, book) before the decorator
add_contact(a, data) ==
  IF UnpackFails(a, 2) THEN Raise(data, "ValueError", "not enough values to unpack")
  ELSE LET name == a[1]
           phone == a[2]
           found == find(data, name)
           data1 == IF found = 0 THEN add_record(data, Record(name)) ELSE data
           msg == IF found = 0 THEN "Contact added." ELSE "Contact updated."
           i == find(data1, name)
           r == add_phone(data1[i], phone)
       IN IF Len(phone) = 0 THEN Return(data1, Lit(msg))
          ELSE IF r.exc # ""
          THEN Raise(data1, r.exc, "Phone number must contain exactly 10 digits.")
          ELSE Return([data1 EXCEPT ![i] = r.rec], Lit(msg))

\* change_contact(args, book) before the decorator
change_contact(a, data) ==
  IF UnpackFails(a, 3) THEN Raise(data, "ValueError", "not enough values to unpack")
  ELSE LET i == find(data, a[1])
           r == edit_phone(data[i], a[2], a[3])
       IN IF i = 0 THEN Raise(data, "KeyError", "")
          ELSE IF r.exc # "" THEN Raise(data, r.exc, r.msg)
          ELSE Return([data EXCEPT ![i] = r.rec], Lit("Contact updated."))

\* show_phone(args, book) before the decorator
show_phone(a, data) ==
  IF UnpackFails(a, 1) THEN Raise(data, "ValueError", "not enough values to unpack")
  ELSE LET i == find(data, a[1])
       IN IF i = 0 THEN Raise(data, "KeyError", "")
          ELSE IF Len(data[i].phones) = 0 THEN Return(data, Lit("No phones saved."))
          ELSE Return(data, Text(Join(data[i].phones, <<44, 32>>)))

\* show_all(args, book) before the decorator
show_all(a, data) ==
  IF Len(data) = 0 THEN Return(data, Lit("No contacts yet."))
  ELSE Return(data, Text(Join([i \in 1..Len(data) |-> Record_str(data[i])], <<10>>)))

\* add_birthday(args, book) before the decorator
add_birthday(a, data) ==
  IF UnpackFails(a, 2) THEN Raise(data, "ValueError", "not enough values to unpack")
  ELSE LET name == a[1]
           found == find(data, name)
           data1 == IF found = 0 THEN add_record(data, Record(name)) ELSE data
           msg == IF found = 0 THEN "Contact created and birthday added."
                  ELSE "Birthday added."
           i == find(data1, name)
           r == Record_add_birthday(data1[i], a[2])
       IN IF r.exc # ""
          THEN Raise(data1, r.exc, "Invalid date format. Use DD.MM.YYYY")
          ELSE Return([data1 EXCEPT ![i] = r.rec], Lit(msg))

\* show_birthday(args, book) before the decorator
show_birthday(a, data) ==
  IF UnpackFails(a, 1) THEN Raise(data, "ValueError", "not enough values to unpack")
  ELSE LET i == find(data, a[1])
       IN IF i = 0 THEN Raise(data, "KeyError", "")
          ELSE IF data[i].birthday = None THEN Return(data, Lit("No birthday set."))
          ELSE Return(data, Text(strftime_dmY(data[i].birthday)))

\* the lines birthdays() joins: f"{it['congratulation_date']}: {it['name']}"
UpcomingLines(up) ==
  [i \in 1..Len(up) |-> up[i].congratulation_date \o <<58, 32>> \o up[i].name]

\* birthdays(args, book) before the decorator, date.today() being now
birthdays(a, data, now) ==
  LET up == get_upcoming_birthdays(data, now)
  IN IF up.exc # "" THEN Raise(data, up.exc, "")
     ELSE IF Len(up.value) = 0 THEN Return(data, Lit("No birthdays in the next 7 days."))
     ELSE Return(data, Text(Join(UpcomingLines(up.value), <<10>>)))

\* the command words
C_close == <<99, 108, 111, 115, 101>>
C_exit == <<101, 120, 105, 116>>
C_hello == <<104, 101, 108, 108, 111>>
C_add == <<97, 100, 100>>
C_change == <<99, 104, 97, 110, 103, 101>>
C_phone == <<112, 104, 111, 110, 101>>
C_all == <<97, 108, 108>>
C_add_birthday == <<97, 100, 100, 45, 98, 105, 114, 116, 104, 100, 97, 121>>
C_show_birthday == <<115, 104, 111, 119, 45, 98, 105, 114, 116, 104, 100, 97, 121>>
C_birthdays == <<98, 105, 114, 116, 104, 100, 97, 121, 115>>

Commands == {C_close, C_exit, C_hello, C_add, C_change, C_phone, C_all,
             C_add_birthday, C_show_birthday, C_birthdays}

-----------------------------------------------------------------------------
(* Input of the model.                                                     *)

Bob == <<66, 111, 98>>
Ann == <<65, 110, 110>>

\* phone texts: the first demo phone, ten ASCII digits, ten ARABIC-INDIC
\* digits, nine digits, ten characters with letters
P1 == <<49, 50, 51, 52, 53, 54, 55, 56, 57, 48>>
P0 == <<48, 48, 48, 48, 48, 48, 48, 48, 48, 48>>
PU == <<1633, 1633, 1633, 1633, 1633, 1633, 1633, 1633, 1633, 1633>>
P9 == <<49, 50, 51, 52, 53, 54, 55, 56, 57>>
PA == <<49, 50, 51, 52, 53, 97, 98, 99, 100, 101>>

\* birthday texts: 01.01.2020, 1.1.2020, 29.02.2023, 01-01-2020, 31.04.2020
B_01_01_2020 == <<48, 49, 46, 48, 49, 46, 50, 48, 50, 48>>
B_1_1_2020 == <<49, 46, 49, 46, 50, 48, 50, 48>>
B_29_02_2023 == <<50, 57, 46, 48, 50, 46, 50, 48, 50, 51>>
B_01m01m2020 == <<48, 49, 45, 48, 49, 45, 50, 48, 50, 48>>
B_31_04_2020 == <<51, 49, 46, 48, 52, 46, 50, 48, 50, 48>>

\* a line typed at the prompt: the tokens separated by one space
Line(tokens) == Join(tokens, <<32>>)

\* the lines typed in Spec
InputLines ==
  { <<32, 12>>,
    <<160>> \o C_hello \o <<9>>,
    C_close, C_exit,
    <<114, 101, 109, 111, 118, 101, 32>> \o Bob,
    Line(<<<<65, 68, 68>>, Bob, P0>>),
    C_add, Line(<<C_add, Bob>>),
    Line(<<C_add, Bob, P0>>), Line(<<C_add, Bob, PU>>),
    Line(<<C_add, Bob, P9>>), Line(<<C_add, Bob, PA>>),
    Line(<<C_add, John, P9>>),
    C_change, Line(<<C_change, Bob, P0>>),
    Line(<<C_change, Bob, P0, PU>>), Line(<<C_change, Bob, P0, P9>>),
    Line(<<C_change, Bob, P9, PU>>), Line(<<C_change, Bob, P9, PA>>),
    Line(<<C_change, John, P1, P0>>), Line(<<C_change, Ann, P0, PU>>),
    C_phone, Line(<<C_phone, Bob>>), Line(<<C_phone, John>>),
    C_all,
    C_add_birthday, Line(<<C_add_birthday, Bob>>),
    Line(<<C_add_birthday, Bob, B_01_01_2020>>),
    Line(<<C_add_birthday, Bob, B_1_1_2020>>),
    Line(<<C_add_birthday, Bob, B_29_02_2023>>),
    Line(<<C_add_birthday, Bob, B_01m01m2020>>),
    Line(<<C_add_birthday, John, B_31_04_2020>>),
    C_show_birthday, Line(<<C_show_birthday, Bob>>), Line(<<C_show_birthday, John>>),
    C_birthdays }

\* the lines typed in SpecBirthdays
BirthdayLines == { C_birthdays, <<66, 105, 114, 116, 104, 100, 97, 121, 115, 32>> }

\* lines 257-261 on a line typed at the prompt: what main holds once the
\* line is read, stripped and, unless it is empty, parsed
Read(line) ==
  LET user_input == strip(line)
  IN IF Len(user_input) = 0 THEN [blank |-> TRUE, command |-> <<>>, args |-> <<>>]
     ELSE [blank |-> FALSE, command |-> parse_input(user_input).command,
           args |-> parse_input(user_input).args]

\* the lines of Spec and of SpecBirthdays as main reads them
Typed == { Read(l) : l \in InputLines }
TypedBirthdays == { Read(l) : l \in BirthdayLines }

-----------------------------------------------------------------------------
(* main.                                                                   *)

\* lines 247-253: load_data, seed_sample_contacts, the two greetings; an
\* exception of load_data leaves main before the try statement
Startup ==
  /\ pc = "start"
  /\ \E r \in load_data(file) :
        IF r.exc # ""
        THEN /\ pc' = "crashed"
             /\ exc' = r.exc
             /\ UNCHANGED <<book, response>>
        ELSE /\ pc' = "loop"
             /\ book' = seed_sample_contacts(r.value)
             /\ response' = [lit |-> "(Loaded %d contacts from 'addressbook.pkl'\n)",
                             text |-> IntText(Len(seed_sample_contacts(r.value)))]
             /\ UNCHANGED exc
  /\ UNCHANGED <<file, command, args, error, upcoming, today, saves, saved>>

\* the line read is not empty and its command is cmd
Reads(line, cmd) ==
  /\ pc = "loop"
  /\ ~line.blank
  /\ line.command = cmd
  /\ command' = line.command
  /\ args' = line.args

\* print(handler(args, book)) with the handler's outcome r
Outputs(r) ==
  /\ book' = r.book
  /\ error' = r.error
  /\ response' = input_error(r)
  /\ UNCHANGED <<file, pc, exc, saves, saved>>

\* lines 258-259: an empty line is skipped
Blank(line) ==
  /\ pc = "loop"
  /\ line.blank
  /\ UNCHANGED vars

\* lines 263-265
Quit(line) ==
  /\ \E cmd \in {C_close, C_exit} : Reads(line, cmd)
  /\ response' = Lit("Good bye!")
  /\ pc' = "finally"
  /\ UNCHANGED <<file, book, exc, error, upcoming, today, saves, saved>>

\* lines 266-267
Hello(line) ==
  /\ Reads(line, C_hello)
  /\ response' = Lit("How can I help you?")
  /\ UNCHANGED <<file, book, pc, exc, error, upcoming, today, saves, saved>>

\* the record add would append to holds fewer than MaxPhones phones
AddWithinBound(a, data) ==
  IF Len(a) = 0 THEN TRUE
  ELSE IF find(data, a[1]) = 0 THEN TRUE
  ELSE Len(data[find(data, a[1])].phones) < MaxPhones

\* lines 268-269
Add(line) ==
  /\ Reads(line, C_add)
  /\ AddWithinBound(line.args, book)
  /\ Outputs(add_contact(line.args, book))
  /\ UNCHANGED <<upcoming, today>>

\* lines 270-271
Change(line) ==
  /\ Reads(line, C_change)
  /\ Outputs(change_contact(line.args, book))
  /\ UNCHANGED <<upcoming, today>>

\* lines 272-273
ShowPhone(line) ==
  /\ Reads(line, C_phone)
  /\ Outputs(show_phone(line.args, book))
  /\ UNCHANGED <<upcoming, today>>

\* lines 274-275
ShowAll(line) ==
  /\ Reads(line, C_all)
  /\ Outputs(show_all(line.args, book))
  /\ UNCHANGED <<upcoming, today>>

\* lines 276-277
AddBirthday(line) ==
  /\ Reads(line, C_add_birthday)
  /\ Outputs(add_birthday(line.args, book))
  /\ UNCHANGED <<upcoming, today>>

\* lines 278-279
ShowBirthday(line) ==
  /\ Reads(line, C_show_birthday)
  /\ Outputs(show_birthday(line.args, book))
  /\ UNCHANGED <<upcoming, today>>

\* lines 280-281: the call reads the clock (line 100), which shows now
Birthdays(line, now) ==
  /\ Reads(line, C_birthdays)
  /\ today' = now
  /\ Outputs(birthdays(line.args, book, now))
  /\ upcoming' = get_upcoming_birthdays(book, now).value

\* lines 282-283
Invalid(line) ==
  /\ pc = "loop"
  /\ ~line.blank
  /\ line.command \notin Commands
  /\ command' = line.command
  /\ args' = line.args
  /\ response' = Lit("Invalid command.")
  /\ UNCHANGED <<file, book, pc, exc, error, upcoming, today, saves, saved>>

\* Ctrl+C ending the process with no finally clause
KeyboardInterrupt_Mutant ==
  /\ pc = "loop"
  /\ response' = Lit("\nInterrupted. Saving and exiting...")
  /\ pc' = "exit"
  /\ UNCHANGED <<file, book, exc, command, args, error, upcoming, today, saves, saved>>

\* lines 284-285: Ctrl+C while input() waits
KeyboardInterrupt ==
  /\ pc = "loop"
  /\ response' = Lit("\nInterrupted. Saving and exiting...")
  /\ pc' = "finally"
  /\ UNCHANGED <<file, book, exc, command, args, error, upcoming, today, saves, saved>>

\* input() raises EOFError when the input ends: no except clause takes it,
\* the finally clause runs and the exception leaves main
InputEnds ==
  /\ pc = "loop"
  /\ exc' = "EOFError"
  /\ pc' = "finally"
  /\ UNCHANGED <<file, book, command, args, response, error, upcoming, today,
                 saves, saved>>

\* save_data(book) returns: the file holds the pickle of the book
save_data(data) == File("valid", data)

\* what a call of save_data that raises can leave of the file: open(.., "wb")
\* fails and the file is as before, or the write fails after open emptied
\* it, leaving no bytes or a proper prefix of the pickle
FailedSave(f) == {f, File("empty", <<>>), File("truncated", <<>>)}

\* lines 286-292: the finally clause
Finally ==
  /\ pc = "finally"
  /\ saves' = saves + 1
  /\ saved' = book
  /\ \/ /\ file' = save_data(book)
        /\ response' = Lit("Data saved to 'addressbook.pkl'.")
     \/ /\ file' \in FailedSave(file)
        /\ response' = Lit("Failed to save data: ")
  /\ pc' = "exit"
  /\ UNCHANGED <<book, exc, command, args, error, upcoming, today>>

-----------------------------------------------------------------------------
(* Specifications.                                                         *)

\* a book an earlier session saved: the demo contacts and Bob with a phone
BobBook == add_contact(<<Bob, P0>>, seed_sample_contacts(<<>>)).book

\* the same with a birthday for Bob
SavedBook == add_birthday(<<Bob, B_01_01_2020>>, BobBook).book

\* the states of the file a session can start from
Files ==
  { File(k, <<>>) : k \in {"missing", "empty", "truncated", "badclass", "badint",
                           "unreadable"} }
  \cup { File("valid", SavedBook) }

InitWith(f, now) ==
  /\ file = f
  /\ book = <<>>
  /\ pc = "start"
  /\ exc = ""
  /\ command = <<>>
  /\ args = <<>>
  /\ response = Lit("")
  /\ error = NoError
  /\ upcoming = <<>>
  /\ today = now
  /\ saves = 0
  /\ saved = <<>>

\* the days the clock shows during a session of Spec: midnight can pass
\* between two commands
SessionDays == {date(2024, 6, 10), date(2024, 6, 11)}

Init == \E f \in Files : InitWith(f, date(2024, 6, 10))

Next ==
  \/ Startup
  \/ \E line \in Typed :
       \/ Blank(line)
       \/ Quit(line)
       \/ Hello(line)
       \/ Add(line)
       \/ Change(line)
       \/ ShowPhone(line)
       \/ ShowAll(line)
       \/ AddBirthday(line)
       \/ ShowBirthday(line)
       \/ \E now \in SessionDays : Birthdays(line, now)
       \/ Invalid(line)
  \/ KeyboardInterrupt
  \/ InputEnds
  \/ Finally

Spec == Init /\ [][Next]_vars

\* the birthday texts of SpecBirthdays: 15.06.1990, 22.06.1985, 23.06.2001, 29.02.2000, 28.02.1999,
\* 01.03.1988, 01.01.1980, 31.12.1985, 04.11.1975
BirthdayTexts ==
  { <<49, 53, 46, 48, 54, 46, 49, 57, 57, 48>>,
    <<50, 50, 46, 48, 54, 46, 49, 57, 56, 53>>,
    <<50, 51, 46, 48, 54, 46, 50, 48, 48, 49>>,
    <<50, 57, 46, 48, 50, 46, 50, 48, 48, 48>>,
    <<50, 56, 46, 48, 50, 46, 49, 57, 57, 57>>,
    <<48, 49, 46, 48, 51, 46, 49, 57, 56, 56>>,
    <<48, 49, 46, 48, 49, 46, 49, 57, 56, 48>>,
    <<51, 49, 46, 49, 50, 46, 49, 57, 56, 53>>,
    <<48, 52, 46, 49, 49, 46, 49, 57, 55, 53>> }

\* a book an earlier session saved, after add-birthday John t1 and
\* add-birthday Jane t2; Bob has no birthday
BirthdayBook(t1, t2) ==
  add_birthday(<<Jane, t2>>, add_birthday(<<John, t1>>, BobBook).book).book

\* the days the clock shows in SpecBirthdays: TodaySpan + 1 days from
\* 20 February of a common year and of a leap year, from 10 June 2024 and
\* from 24 December 2023
Todays ==
  { timedelta_add(a, k) :
      a \in {date(2023, 2, 20), date(2024, 2, 20), date(2024, 6, 10), date(2023, 12, 24)},
      k \in 0..TodaySpan }

InitBirthdays ==
  \E t1 \in BirthdayTexts, t2 \in BirthdayTexts, now \in Todays :
    InitWith(File("valid", BirthdayBook(t1, t2)), now)

NextBirthdays ==
  \/ Startup
  \/ \E line \in TypedBirthdays, now \in Todays : Birthdays(line, now)

SpecBirthdays == InitBirthdays /\ [][NextBirthdays]_vars

-----------------------------------------------------------------------------
(* Properties of get_upcoming_birthdays, checked under SpecBirthdays.      *)

\* the birthdays command has been handled in this state
BirthdaysHandled == pc = "loop" /\ command = C_birthdays

\* the day d is an occurrence of the birthday: the same month and day, or
\* 28 February of a year that is not a leap year for a birthday of 29 February
Occurs(d, bday) ==
  \/ d.month = bday.month /\ d.day = bday.day
  \/ /\ bday.month = 2 /\ bday.day = 29
     /\ d.month = 2 /\ d.day = 28
     /\ ~IsLeap(d.year)

\* the numbers k of days from now, 0 to 7, on which the birthday occurs
OccursWithin7(bday, now) == {k \in 0..7 : Occurs(timedelta_add(now, k), bday)}

\* the next occurrence of a birthday that occurs within 7 days
NextOccurrence(bday, now) ==
  timedelta_add(now, CHOOSE k \in OccursWithin7(bday, now) :
                       \A j \in OccursWithin7(bday, now) : k <= j)

\* the entries of the list returned for the record
EntriesOf(rec) == {j \in 1..Len(upcoming) : upcoming[j].name = rec.name}

\* the ASCII digits 0 to 9
IsAsciiDigit(c) == c \in 48..57

\* the date a text YYYY.MM.DD names
DateOfText(t) ==
  date(int(SubSeq(t, 1, 4)), int(SubSeq(t, 6, 7)), int(SubSeq(t, 9, 10)))

IsYmdText(t) ==
  /\ Len(t) = 10
  /\ t[5] = 46 /\ t[8] = 46
  /\ \A i \in {1, 2, 3, 4, 6, 7, 9, 10} : IsAsciiDigit(t[i])

\* C1: get_upcoming_birthdays lists a record exactly when it has a birthday
\* whose next occurrence on or after today is 0 to 7 days after today, the
\* weekend shift playing no part in the test; a record with no birthday, or
\* whose next occurrence is further away, is not listed
C1_IncludedIffWithinSevenDays ==
  BirthdaysHandled =>
    /\ error = NoError
    /\ \A i \in 1..Len(book) :
         /\ Cardinality(EntriesOf(book[i])) <= 1
         /\ EntriesOf(book[i]) # {} <=>
              /\ book[i].birthday # None
              /\ OccursWithin7(book[i].birthday, today) # {}
    /\ \A j \in 1..Len(upcoming) : \E i \in 1..Len(book) : j \in EntriesOf(book[i])

\* on 20 June 2024 John, born on 15 June, is left out (his birthday has
\* passed and the next one is far away), Jane, born on 22 June, is listed and
\* Bob, who has no birthday, is not
C1_Witness ==
  /\ BirthdaysHandled
  /\ today = date(2024, 6, 20)
  /\ book[1].name = John /\ book[1].birthday = date(1990, 6, 15)
  /\ book[2].name = Jane /\ book[2].birthday = date(1985, 6, 22)
  /\ book[3].name = Bob /\ book[3].birthday = None
  /\ Len(upcoming) = 1
  /\ upcoming[1].name = Jane

\* C2: the congratulation date of every entry is the projected date on
\* Monday to Friday, two days later for a Saturday and one day later for a
\* Sunday; it is never a weekend day, it is a Monday for a weekend birthday,
\* and it lies 0 to 9 days after today
C2_WeekendShift ==
  BirthdaysHandled =>
    \A i \in 1..Len(book) : \A j \in EntriesOf(book[i]) :
      LET p == NextOccurrence(book[i].birthday, today)
          t == upcoming[j].congratulation_date
          d == DateOfText(t)
      IN /\ IsYmdText(t)
         /\ weekday(p) \in 0..4 => d = p
         /\ weekday(p) = 5 => d = timedelta_add(p, 2)
         /\ weekday(p) = 6 => d = timedelta_add(p, 1)
         /\ weekday(d) \in 0..4
         /\ weekday(p) \in 5..6 => weekday(d) = 0
         /\ days_between(d, today) \in 0..9

\* on Sunday 16 June 2024 Jane's birthday of 23 June, a Sunday exactly 7 days
\* away, is reported on Monday 24 June, 8 days away
C2_Witness ==
  /\ BirthdaysHandled
  /\ today = date(2024, 6, 16)
  /\ book[2].name = Jane /\ book[2].birthday = date(2001, 6, 23)
  /\ \E j \in 1..Len(upcoming) :
       /\ upcoming[j].name = Jane
       /\ upcoming[j].congratulation_date = <<50, 48, 50, 52, 46, 48, 54, 46, 50, 52>>

\* the day a birthday of 29 February is celebrated in year y
Feb29In(y) == IF IsLeap(y) THEN date(y, 2, 29) ELSE date(y, 2, 28)

\* the projected date of a birthday of 29 February
Feb29Projected(now) ==
  IF toordinal(Feb29In(now.year)) < toordinal(now) THEN Feb29In(now.year + 1)
  ELSE Feb29In(now.year)

\* a date moved off the weekend to the Monday after it
ToMonday(d) ==
  IF weekday(d) = 5 THEN timedelta_add(d, 2)
  ELSE IF weekday(d) = 6 THEN timedelta_add(d, 1)
  ELSE d

\* C3: for a birthday of 29 February the call does not fail; the projected
\* date is 28 February of a target year that is not a leap year and
\* 29 February of one that is, and both the 0 to 7 day test and the date
\* listed come from that date
C3_Feb29 ==
  BirthdaysHandled =>
    /\ error = NoError
    /\ \A i \in 1..Len(book) :
         (book[i].birthday # None /\ book[i].birthday.month = 2
          /\ book[i].birthday.day = 29) =>
           LET p == Feb29Projected(today)
           IN /\ EntriesOf(book[i]) # {} <=> days_between(p, today) \in 0..7
              /\ \A j \in EntriesOf(book[i]) :
                   /\ IsYmdText(upcoming[j].congratulation_date)
                   /\ DateOfText(upcoming[j].congratulation_date) = ToMonday(p)

\* on 24 February 2023 John, born on 29 February 2000, is listed for
\* 28 February 2023
C3_Witness ==
  /\ BirthdaysHandled
  /\ today = date(2023, 2, 24)
  /\ book[1].name = John /\ book[1].birthday = date(2000, 2, 29)
  /\ \E j \in 1..Len(upcoming) :
       /\ upcoming[j].name = John
       /\ upcoming[j].congratulation_date = <<50, 48, 50, 51, 46, 48, 50, 46, 50, 56>>

-----------------------------------------------------------------------------
(* Properties of the commands, checked under Spec.                         *)

GiveMeCorrectData == Lit("Give me correct data, please.")

\* the step handles the command cmd, given at least n arguments
Handles(cmd, n) ==
  /\ pc = "loop"
  /\ pc' = "loop"
  /\ command' = cmd
  /\ Len(args') >= n

\* the phones with the first one equal to old replaced by new
FirstReplaced(phones, old, new) ==
  [k \in 1..Len(phones) |->
     IF phones[k] = old /\ \A j \in 1..(k - 1) : phones[j] # old THEN new
     ELSE phones[k]]

\* C4: change on a record that exists runs edit_phone(old, new): when a phone
\* equals old and new is accepted as a phone, the first phone equal to old
\* becomes new and nothing else changes; when no phone equals old the call
\* fails with "Old number not found.", when one does and new is refused it
\* fails with the phone's error, and both failures leave the phones as
\* they were
C4_EditPhone ==
  [][ (Handles(C_change, 3) /\ find(book, args'[1]) # 0) =>
        LET i == find(book, args'[1])
            before == book[i].phones
            old == args'[2]
            new == args'[3]
            present == \E k \in 1..Len(before) : before[k] = old
        IN /\ (present /\ PhoneAccepts(new)) =>
                /\ error' = NoError
                /\ book' = [book EXCEPT ![i].phones = FirstReplaced(before, old, new)]
                /\ Len(book'[i].phones) = Len(before)
           /\ ~present =>
                /\ error' = Error("ValueError", "Old number not found.")
                /\ book' = book
           /\ (present /\ ~PhoneAccepts(new)) =>
                /\ error' = Error("ValueError",
                                  "Phone number must contain exactly 10 digits.")
                /\ book' = book ]_vars

\* change Bob 0000000000 <ten ARABIC-INDIC ones> on phones 0000000000,
\* 0000000000 has replaced the first of the two only
C4_Witness ==
  /\ pc = "loop"
  /\ command = C_change
  /\ args = <<Bob, P0, PU>>
  /\ error = NoError
  /\ find(book, Bob) # 0
  /\ book[find(book, Bob)].phones = <<PU, P0>>

\* C5: every phone stored in the book is a text of exactly 10 ASCII digits
C5_StoredPhonesAreTenAsciiDigits ==
  \A i \in 1..Len(book) : \A k \in 1..Len(book[i].phones) :
    /\ Len(book[i].phones[k]) = 10
    /\ \A n \in 1..Len(book[i].phones[k]) : IsAsciiDigit(book[i].phones[k][n])

\* the text is two digits, ".", two digits, ".", four digits and names a date
IsStrictDate(t) ==
  /\ Len(t) = 10
  /\ t[3] = 46 /\ t[6] = 46
  /\ \A i \in {1, 2, 4, 5, 7, 8, 9, 10} : IsDecimalChar(t[i])
  /\ IsDate(int(SubSeq(t, 7, 10)), int(SubSeq(t, 4, 5)), int(SubSeq(t, 1, 2)))

\* C6: add-birthday accepts its date text exactly when the text is DD.MM.YYYY
\* and names a date
C6_BirthdayFormatIsStrict ==
  (pc = "loop" /\ command = C_add_birthday /\ Len(args) >= 2) =>
    (error = NoError <=> IsStrictDate(args[2]))

\* the number of arguments the command needs
Arity(cmd) ==
  IF cmd = C_change THEN 3
  ELSE IF cmd \in {C_add, C_add_birthday} THEN 2
  ELSE IF cmd \in {C_phone, C_show_birthday} THEN 1
  ELSE 0

\* C7: a command given fewer arguments than it needs answers "Not enough
\* arguments." and leaves the book as it was
C7_TooFewArguments ==
  [][ (pc = "loop" /\ pc' = "loop" /\ command' \in Commands
       /\ Len(args') < Arity(command')) =>
        /\ response' = Lit("Not enough arguments.")
        /\ book' = book ]_vars

\* C8: load_data lets no exception through; with no valid file the session
\* starts from the empty book (which main then seeds) and with one it
\* starts from the saved book
C8_LoadNeverFails ==
  /\ pc # "crashed"
  /\ (pc = "loop" /\ command = <<>>) =>
       book = IF file.kind = "valid" THEN file.book ELSE seed_sample_contacts(<<>>)

\* C9: the loop has ended in every state where save_data has been called,
\* the process exits only after exactly one call of save_data, and that call
\* was given the book as the last command left it
C9_SavedExactlyOnce ==
  /\ saves <= 1
  /\ pc \in {"start", "loop", "finally", "crashed"} => saves = 0
  /\ pc = "exit" => saves = 1 /\ saved = book

\* the session was interrupted after add Bob 0000000000 and the book with
\* Bob in it was saved
C9_Witness ==
  /\ pc = "exit"
  /\ exc = ""
  /\ command = C_add
  /\ response = Lit("Data saved to 'addressbook.pkl'.")
  /\ saves = 1
  /\ find(saved, Bob) # 0
  /\ file = File("valid", book)

\* C10: add with a phone that is refused, and add-birthday with a date that
\* is refused, answer "Give me correct data, please."; when the name was not
\* in the book the book has gained a record of that name with no phones and
\* no birthday, and when it was the book is unchanged
C10_NotAtomic ==
  [][ /\ (Handles(C_add, 2) /\ ~PhoneAccepts(args'[2])) =>
           /\ response' = GiveMeCorrectData
           /\ book' = IF find(book, args'[1]) # 0 THEN book
                      ELSE Append(book, [name |-> args'[1], phones |-> <<>>,
                                         birthday |-> None])
      /\ (Handles(C_add_birthday, 2) /\ Birthday(args'[2]).exc # "") =>
           /\ response' = GiveMeCorrectData
           /\ book' = IF find(book, args'[1]) # 0 THEN book
                      ELSE Append(book, [name |-> args'[1], phones |-> <<>>,
                                         birthday |-> None]) ]_vars

\* add Bob 123456789 has been refused and Bob is in the book, with no phones
\* and no birthday
C10_Witness ==
  /\ pc = "loop"
  /\ command = C_add
  /\ args = <<Bob, P9>>
  /\ response = GiveMeCorrectData
  /\ Len(book) = 3
  /\ book[3] = [name |-> Bob, phones |-> <<>>, birthday |-> None]

=============================================================================
